---- MODULE Spec2Model ----
(***************************************************************************)
(* A model of pantalaimon's ProxyDaemon (src/pantalaimon/daemon.py): the   *)
(* session registry, the login / sync / send / router handlers running as  *)
(* coroutines on one event loop, and the shutdown hook.  A handler is cut  *)
(* into one action per stretch of code between two awaits on the upstream  *)
(* (the homeserver or the PantaClient); awaits on the body of the inbound  *)
(* request touch no shared state and are folded into the stretch around    *)
(* them.  Text (tokens, headers, query values) is a sequence of one        *)
(* character strings, so that str.strip and json.loads are computed.       *)
(***************************************************************************)
EXTENDS Integers, Sequences, FiniteSets, TLC

VARIABLES
    client_sessions,   \* ProxyDaemon.client_sessions: dict, as its entries in insertion order
    default_session,   \* ProxyDaemon.default_session: 0 is None, n is the n-th ClientSession()
    sessions_created,  \* how many times ClientSession() has been constructed
    closed_default,    \* the ClientSession instances close() was called on
    n_clients,         \* how many PantaClient objects have been constructed
    close_calls,       \* per PantaClient: how many times close() was called on it
    task,              \* the handler coroutines: position, locals, calls made, response
    requests,          \* how many requests have been dispatched to a handler
    sd,                \* the coroutine of ProxyDaemon.shutdown: position, the dict
                       \* iterator (next index, size when created), how many
                       \* PantaClients existed and which logins had returned when
                       \* it started, and which run of the hook it is
    fn_in,             \* input of the pure functions (get_access_token, the sync
                       \* filter, the configuration forward_request hands on)
    fn_out             \* their output

vars == <<client_sessions, default_session, sessions_created, closed_default,
          n_clients, close_calls, task, requests, sd, fn_in, fn_out>>

daemon_vars == <<client_sessions, default_session, sessions_created, closed_default,
                 n_clients, close_calls, task, requests, sd>>

-----------------------------------------------------------------------------
(* Bounds of the model.                                                    *)

\* handler coroutines that can be in flight at the same time
MaxTasks == 2
\* requests dispatched during one process lifetime
MaxRequests == 2
\* how many times the shutdown hook is run where it is run again
MaxShutdowns == 2
\* length of the token part of an Authorization header given to get_access_token
MaxTextLen == 2
\* length of a filter query value given to the sync filter handling
MaxFilterLen == 3

Tasks == 1..MaxTasks
ClientIds == 1..MaxRequests

-----------------------------------------------------------------------------
(* Text.                                                                   *)

Empty == <<>>
Bearer == <<"B", "e", "a", "r", "e", "r", " ">>
TokAbc == <<"a", "b", "c">>
TokXyz == <<"x", "y", "z">>
\* the access tokens the homeserver hands out
Tokens == {TokAbc, TokXyz}

\* all texts over alphabet cs of length at most n
RECURSIVE TextsUpTo(_, _)
TextsUpTo(cs, n) ==
    IF n = 0 THEN {Empty}
    ELSE LET shorter == TextsUpTo(cs, n - 1)
         IN  shorter \cup {Append(s, c) : s \in shorter, c \in cs}

\* str.lstrip(chars): drop leading characters while they are in chars
RECURSIVE lstrip(_, _)
lstrip(s, chars) ==
    IF s # Empty /\ Head(s) \in chars THEN lstrip(Tail(s), chars) ELSE s

\* str.rstrip(chars): drop trailing characters while they are in chars
RECURSIVE rstrip(_, _)
rstrip(s, chars) ==
    IF s # Empty /\ s[Len(s)] \in chars
    THEN rstrip(SubSeq(s, 1, Len(s) - 1), chars)
    ELSE s

\* str.strip(chars): chars is a set of characters, not a prefix
strip(s, chars) == rstrip(lstrip(s, chars), chars)

Chars(s) == {s[i] : i \in 1..Len(s)}

\* daemon.py:46-54.  request.query.get("access_token", "") and
\* request.headers.get("Authorization", "") give "" for a missing entry.
get_access_token(request) ==
    LET access_token == request.query_access_token
    IN  IF access_token # Empty
        THEN access_token
        ELSE strip(request.authorization, Chars(Bearer))

-----------------------------------------------------------------------------
(* Python values, as far as the handlers tell them apart: a type and, for  *)
(* text, the characters.                                                   *)

None == [type |-> "NoneType", text |-> Empty]
str(s) == [type |-> "str", text |-> s]
Value(t) == [type |-> t, text |-> Empty]
JSONDecodeError == [type |-> "JSONDecodeError", text |-> Empty]
TypeError == [type |-> "TypeError", text |-> Empty]

Digits == {"0", "2", "4"}
Quote == "\""

IsInt(s) ==
    /\ s # Empty
    /\ \A i \in 1..Len(s) : s[i] \in Digits
    /\ Len(s) > 1 => s[1] # "0"

IsFloat(s) ==
    \E i \in 2..(Len(s) - 1) :
        /\ s[i] = "."
        /\ IsInt(SubSeq(s, 1, i - 1))
        /\ \A j \in (i + 1)..Len(s) : s[j] \in Digits

IsString(s) ==
    /\ Len(s) >= 2
    /\ s[1] = Quote
    /\ s[Len(s)] = Quote
    /\ \A i \in 2..(Len(s) - 1) : s[i] # Quote

\* a JSON document over the characters of FilterChars: no comma, colon or
\* white space occurs, so an object is {} and an array holds at most one value
RECURSIVE IsJson(_)
IsJson(s) ==
    \/ IsInt(s)
    \/ IsFloat(s)
    \/ IsString(s)
    \/ s = <<"{", "}">>
    \/ /\ Len(s) >= 2
       /\ s[1] = "["
       /\ s[Len(s)] = "]"
       /\ Len(s) > 2 => IsJson(SubSeq(s, 2, Len(s) - 1))

\* json.loads on text: the Python value, or the exception raised
json_loads(s) ==
    IF IsInt(s) THEN Value("int")
    ELSE IF IsFloat(s) THEN Value("float")
    ELSE IF IsString(s) THEN str(SubSeq(s, 2, Len(s) - 1))
    ELSE IF s = <<"{", "}">> THEN Value("dict")
    ELSE IF IsJson(s) THEN Value("list")
    ELSE JSONDecodeError

\* daemon.py:193-202: what sync hands to client.sync as the filter.
\* query_filter is request.query.get("filter", None): None or a str.
\* json.loads(None) raises TypeError; both exceptions are passed over.
sync_filter(query_filter) ==
    LET decoded == IF query_filter.type = "str"
                   THEN json_loads(query_filter.text)
                   ELSE TypeError
        loaded  == IF decoded \in {JSONDecodeError, TypeError}
                   THEN query_filter
                   ELSE decoded
    IN  IF loaded.type = "int" THEN None ELSE loaded

-----------------------------------------------------------------------------
(* The registry: a Python dict keeps its entries in insertion order, and   *)
(* assigning to a key that is present replaces the value in place.         *)

Keys(d) == {d[i].key : i \in 1..Len(d)}
Values(d) == {d[i].value : i \in 1..Len(d)}
IndexOf(d, k) == CHOOSE i \in 1..Len(d) : d[i].key = k

\* d.get(k, None), None being 0
DictGet(d, k) == IF k \in Keys(d) THEN d[IndexOf(d, k)].value ELSE 0

\* d[k] = v
DictSet(d, k, v) ==
    IF k \in Keys(d)
    THEN [d EXCEPT ![IndexOf(d, k)].value = v]
    ELSE Append(d, [key |-> k, value |-> v])

-----------------------------------------------------------------------------
(* Requests, responses and the locals of a handler coroutine.              *)

Response(status, text) == [status |-> status, text |-> text]
NoResponse == Response(0, "")

\* the texts json.dumps gives for the local error bodies
MissingTokenText == "{\"errcode\": \"M_MISSING_TOKEN\", \"error\": \"Missing access token.\"}"
UnknownTokenText == "{\"errcode\": \"M_UNKNOWN_TOKEN\", \"error\": \"Unrecognised access token.\"}"
NotJsonText == "{\"errcode\": \"M_NOT_JSON\", \"error\": \"Request did not contain valid JSON.\"}"

\* login answering as send_message does, with 400
login_not_json_400 == Response(400, NotJsonText)

\* daemon.py:118-124
login_not_json == Response(500, NotJsonText)
\* daemon.py:152-160
missing_token == Response(401, MissingTokenText)
\* daemon.py:162-170
unknown_token == Response(401, UnknownTokenText)
\* daemon.py:172-180
not_json == Response(400, NotJsonText)

\* what the homeserver may answer
UpstreamTexts == {"upstream text 1", "upstream text 2"}
ErrorStatuses == {404}
ForwardStatuses == {200, 404, 500}

\* how a request can carry a credential
NoCredential == [query_access_token |-> Empty, authorization |-> Empty]
Credentials ==
    {NoCredential, [query_access_token |-> TokAbc, authorization |-> Empty]}
    \cup {[query_access_token |-> Empty, authorization |-> Bearer \o tok] : tok \in Tokens}

\* values of the query parameter filter the sync requests of the daemon model carry
FilterSamples == {None, str(<<"x">>)}

NoRequest ==
    [query_access_token |-> Empty, authorization |-> Empty, json |-> TRUE, filter |-> None]

Request(cred, json, filter) ==
    [query_access_token |-> cred.query_access_token,
     authorization |-> cred.authorization, json |-> json, filter |-> filter]

NoSession == <<"none", 0>>
\* client.client_session, the transport PantaClient number c owns
ClientSession(c) == <<"client", c>>
\* the n-th ClientSession() the daemon constructed for itself
DefaultSession(n) == <<"default", n>>

Call(op, on, arg) == [op |-> op, on |-> on, arg |-> arg]

IdleTask ==
    [pc |-> "idle", kind |-> "none", req |-> NoRequest, access_token |-> Empty,
     client |-> 0, session |-> NoSession, calls |-> <<>>, results |-> <<>>,
     resp |-> NoResponse, response |-> NoResponse, raised |-> "none",
     reads |-> <<>>]

\* a slot is free before its first request and once its handler has returned;
\* the locals and the response of the finished handler stay readable until
\* the next request takes the slot
Free(tk) == tk.pc \in {"idle", "done"}

\* a request is dispatched to the lowest free coroutine slot
CanStart(t) ==
    /\ Free(task[t])
    /\ \A u \in Tasks : u < t => ~Free(task[u])
    /\ requests < MaxRequests

Started(kind, req) ==
    [IdleTask EXCEPT !.kind = kind, !.req = req]

\* the handler returns `response`; aiohttp sends it
Return(tk, response) == [tk EXCEPT !.pc = "done", !.response = response]

\* the handler lets exception exc escape
Raise(tk, exc) == [tk EXCEPT !.pc = "done", !.raised = exc]

\* an awaited call on `on` is issued
Await(tk, pc, op, on, arg) ==
    [tk EXCEPT !.pc = pc, !.calls = Append(@, Call(op, on, arg))]

\* the handler reads attribute attr of the object it was handed and gets value
Read(tk, attr, value) ==
    [tk EXCEPT !.reads = Append(@, [attr |-> attr, value |-> value])]

\* token_check without the KeyError handler
token_check_no_lookup(access_token, sessions) ==
    IF access_token = Empty THEN "missing" ELSE "ok"

\* daemon.py:183-191 and 250-258: the token checks of sync and send_message
token_check(access_token, sessions) ==
    IF access_token = Empty THEN "missing"
    ELSE IF access_token \notin Keys(sessions) THEN "unknown"
    ELSE "ok"

-----------------------------------------------------------------------------
(* Configuration, daemon.py:384-392, and forward_request, daemon.py:56-74  *)

\* the keyword arguments of an upstream call that carry the configuration
UpstreamCall(proxy, ssl) == [proxy |-> proxy, ssl |-> ssl]

\* the value of the ssl argument of aiohttp that turns verification off;
\* None leaves aiohttp's default, which verifies
False == [type |-> "bool", text |-> <<"F">>]

\* daemon.py:384-392: the ProxyDaemon that main has init construct from the
\* command line (--proxy, --ssl-insecure)
main(proxy, ssl_insecure) ==
    [proxy |-> proxy,
     ssl   |-> IF ssl_insecure = FALSE THEN None ELSE False]

\* forward_request handing the daemon's ssl attribute on
forward_request_configured(self) == UpstreamCall(self.proxy, self.ssl)

\* daemon.py:66-74: the proxy and ssl arguments of session.request
forward_request(self) == UpstreamCall(self.proxy, False)

-----------------------------------------------------------------------------
(* login, daemon.py:106-150                                                *)

LoginResponse(access_token, status, text) ==
    [type |-> "LoginResponse", access_token |-> access_token,
     transport_response |-> Response(status, text)]
LoginError(status, text) ==
    [type |-> "LoginError", access_token |-> Empty,
     transport_response |-> Response(status, text)]

LoginResults ==
    {LoginResponse(tok, 200, text) : tok \in Tokens, text \in UpstreamTexts}
    \cup {LoginError(status, text) : status \in ErrorStatuses, text \in UpstreamTexts}

\* login_register put off until the response has been sent
login_register_late(sessions, response, client) == sessions

\* login_register without the isinstance test
login_register_always(sessions, response, client) ==
    DictSet(sessions, response.access_token, client)

\* daemon.py:142-143: the registry after client.login returned `response`
login_register(sessions, response, client) ==
    IF response.type = "LoginResponse"
    THEN DictSet(sessions, response.access_token, client)
    ELSE sessions

\* daemon.py:144-145: whether login closes the client it created
login_closes(response) == response.type # "LoginResponse"

\* daemon.py:147-150
login_response(transport_response) ==
    Response(transport_response.status, transport_response.text)

\* daemon.py:107-140: parse the body, construct the PantaClient, call client.login
LoginStart(t) ==
    /\ CanStart(t)
    /\ \E json \in BOOLEAN :
         LET tk == Started("login", Request(NoCredential, json, None))
             c  == n_clients + 1
         IN  IF ~json
             THEN /\ task' = [task EXCEPT ![t] = Return(tk, login_not_json)]
                  /\ UNCHANGED n_clients
             ELSE /\ n_clients' = c
                  /\ task' = [task EXCEPT ![t] =
                                 Await([tk EXCEPT !.client = c], "login_wait",
                                       "login", ClientSession(c), None)]
    /\ requests' = requests + 1
    /\ UNCHANGED <<client_sessions, default_session, sessions_created,
                   closed_default, close_calls, sd, fn_in, fn_out>>

\* daemon.py:140-150: client.login returned
LoginReturn(t) ==
    /\ task[t].pc = "login_wait"
    /\ \E response \in LoginResults :
         LET tk == [task[t] EXCEPT !.results = Append(@, response.type),
                                   !.resp = response.transport_response]
         IN  /\ client_sessions' = login_register(client_sessions, response, tk.client)
             /\ IF login_closes(response)
                THEN /\ close_calls' = [close_calls EXCEPT ![tk.client] = @ + 1]
                     /\ task' = [task EXCEPT ![t] =
                                    Await(tk, "login_close", "close",
                                          ClientSession(tk.client), None)]
                ELSE /\ task' = [task EXCEPT ![t] =
                                    Return(Read(tk, "access_token", response.access_token),
                                           login_response(tk.resp))]
                     /\ UNCHANGED close_calls
    /\ UNCHANGED <<default_session, sessions_created, closed_default, n_clients,
                   requests, sd, fn_in, fn_out>>

\* daemon.py:145-150: client.close returned
LoginClosed(t) ==
    /\ task[t].pc = "login_close"
    /\ task' = [task EXCEPT ![t] = Return(task[t], login_response(task[t].resp))]
    /\ UNCHANGED <<client_sessions, default_session, sessions_created,
                   closed_default, n_clients, close_calls, requests, sd, fn_in, fn_out>>

-----------------------------------------------------------------------------
(* sync, daemon.py:182-247                                                 *)

\* the devices a key query can report, in the order the changed map yields them
Devices ==
    <<[id |-> "DEVICEA", deleted |-> FALSE],
      [id |-> "DEVICEB", deleted |-> TRUE],
      [id |-> "DEVICEC", deleted |-> FALSE]>>

RECURSIVE SubSeqs(_)
SubSeqs(s) ==
    IF s = <<>> THEN {<<>>}
    ELSE LET rest == SubSeqs(Tail(s))
         IN  rest \cup {<<Head(s)>> \o r : r \in rest}

\* client.decrypt_sync_body, then json.dumps: the text sync answers with
Decrypted ==
    [text \in UpstreamTexts |->
        IF text = "upstream text 1" THEN "decrypted text 1" ELSE "decrypted text 2"]

\* verify_calls without the test of device.deleted
verify_calls_deleted_too(changed, on) ==
    [i \in 1..Len(changed) |-> Call("verify_device", on, str(<<changed[i].id>>))]

\* daemon.py:230-238: the verify_device calls for a key query response
RECURSIVE verify_calls(_, _)
verify_calls(changed, on) ==
    IF changed = <<>> THEN <<>>
    ELSE IF Head(changed).deleted
         THEN verify_calls(Tail(changed), on)
         ELSE <<Call("verify_device", on, str(<<Head(changed).id>>))>>
              \o verify_calls(Tail(changed), on)

\* sync_finish answering with an error when the key query failed
sync_finish_surfacing(tk) ==
    IF \E n \in 1..Len(tk.results) : tk.results[n] = "KeysQueryError"
    THEN Return(tk, Response(500, tk.resp.text))
    ELSE Return([tk EXCEPT !.calls = Append(@, Call("decrypt_sync_body",
                                                     ClientSession(tk.client), None))],
                Response(tk.resp.status, Decrypted[tk.resp.text]))

\* daemon.py:240-247
sync_finish(tk) ==
    Return([tk EXCEPT !.calls = Append(@, Call("decrypt_sync_body", ClientSession(tk.client), None))],
           Response(tk.resp.status, Decrypted[tk.resp.text]))

\* daemon.py:225-226, read when control reaches it
sync_query_keys(tk, should_query_keys) ==
    LET rd == Read(tk, "should_query_keys", should_query_keys)
    IN  IF should_query_keys
        THEN Await(rd, "query_wait", "keys_query", ClientSession(tk.client), None)
        ELSE sync_finish(rd)

\* sync_upload_keys without the test of should_upload_keys
sync_upload_keys_always(tk, should_upload_keys, should_query_keys) ==
    Await(Read(tk, "should_upload_keys", should_upload_keys),
          "upload_wait", "keys_upload", ClientSession(tk.client), None)

\* daemon.py:222-226: should_query_keys is read after keys_upload returned,
\* or at once when there is nothing to upload
sync_upload_keys(tk, should_upload_keys, should_query_keys) ==
    LET rd == Read(tk, "should_upload_keys", should_upload_keys)
    IN  IF should_upload_keys
        THEN Await(rd, "upload_wait", "keys_upload", ClientSession(tk.client), None)
        ELSE sync_query_keys(rd, should_query_keys)

\* daemon.py:216-220: the status is read from response.transport_response,
\* the body from response.text(), a method of the nio response object itself
\* (daemon.py:149 and 277 call transport_response.text()).  The nio classes
\* are not part of this source: has_text says whether the object offers the
\* method; without it the attribute lookup raises.
sync_relay(tk, has_text) ==
    IF has_text
    THEN Return(tk, Response(tk.resp.status, tk.resp.text))
    ELSE Raise(tk, "AttributeError")

\* daemon.py:183-214
SyncStart(t) ==
    /\ CanStart(t)
    /\ \E cred \in Credentials, filter \in FilterSamples :
         LET req == Request(cred, TRUE, filter)
             access_token == get_access_token(req)
             tk == [Started("sync", req) EXCEPT !.access_token = access_token]
             check == token_check(access_token, client_sessions)
             client == DictGet(client_sessions, access_token)
         IN  task' = [task EXCEPT ![t] =
                 IF check = "missing" THEN Return(tk, missing_token)
                 ELSE IF check = "unknown" THEN Return(tk, unknown_token)
                 ELSE Await([tk EXCEPT !.client = client], "sync_wait", "sync",
                            ClientSession(client), sync_filter(req.filter))]
    /\ requests' = requests + 1
    /\ UNCHANGED <<client_sessions, default_session, sessions_created,
                   closed_default, n_clients, close_calls, sd, fn_in, fn_out>>

\* daemon.py:214-226: client.sync returned
SyncReturn(t) ==
    /\ task[t].pc = "sync_wait"
    /\ \E ok \in BOOLEAN, text \in UpstreamTexts, status \in ErrorStatuses,
          should_upload_keys \in BOOLEAN, should_query_keys \in BOOLEAN,
          has_text \in BOOLEAN :
         LET tk == [task[t] EXCEPT
                       !.results = Append(@, IF ok THEN "SyncResponse" ELSE "SyncError"),
                       !.resp = Response(IF ok THEN 200 ELSE status, text)]
         IN  task' = [task EXCEPT ![t] =
                 IF ~ok THEN sync_relay(tk, has_text)
                 ELSE sync_upload_keys(tk, should_upload_keys, should_query_keys)]
    /\ UNCHANGED <<client_sessions, default_session, sessions_created,
                   closed_default, n_clients, close_calls, requests, sd, fn_in, fn_out>>

\* daemon.py:223-226: client.keys_upload returned
SyncUploaded(t) ==
    /\ task[t].pc = "upload_wait"
    /\ \E result \in {"KeysUploadResponse", "KeysUploadError"},
          should_query_keys \in BOOLEAN :
         task' = [task EXCEPT ![t] =
                     sync_query_keys([task[t] EXCEPT !.results = Append(@, result)],
                                     should_query_keys)]
    /\ UNCHANGED <<client_sessions, default_session, sessions_created,
                   closed_default, n_clients, close_calls, requests, sd, fn_in, fn_out>>

\* daemon.py:226-247: client.keys_query returned
SyncQueried(t) ==
    /\ task[t].pc = "query_wait"
    /\ \E ok \in BOOLEAN, changed \in SubSeqs(Devices) :
         LET on == ClientSession(task[t].client)
             tk == [task[t] EXCEPT
                       !.results = Append(@, IF ok THEN "KeysQueryResponse"
                                                   ELSE "KeysQueryError")]
         IN  task' = [task EXCEPT ![t] =
                 sync_finish(IF ok
                             THEN [Read(tk, "changed", changed) EXCEPT
                                      !.calls = @ \o verify_calls(changed, on)]
                             ELSE tk)]
    /\ UNCHANGED <<client_sessions, default_session, sessions_created,
                   closed_default, n_clients, close_calls, requests, sd, fn_in, fn_out>>

-----------------------------------------------------------------------------
(* send_message, daemon.py:249-278                                         *)

\* what client.room_send can do: return a response, or raise
SendResults ==
    {[type |-> "RoomSendResponse", transport_response |-> Response(200, text)] :
        text \in UpstreamTexts}
    \cup {[type |-> "RoomSendError", transport_response |-> Response(status, text)] :
            status \in ErrorStatuses, text \in UpstreamTexts}
    \cup {[type |-> "GroupEncryptionError", transport_response |-> NoResponse],
          [type |-> "ClientConnectionError", transport_response |-> NoResponse]}

Raises(result) == result.type \in {"GroupEncryptionError", "ClientConnectionError"}

\* send_next retrying as long as the group session is missing
send_next_unbounded(attempt, result) ==
    IF ~Raises(result) THEN "respond"
    ELSE IF result.type = "GroupEncryptionError" THEN "share"
    ELSE "raise"

\* daemon.py:269-273: what follows room_send number `attempt` ending in `result`:
\* "share" the group session and send again, let the exception "raise", or "respond"
send_next(attempt, result) ==
    IF ~Raises(result) THEN "respond"
    ELSE IF attempt = 1 /\ result.type = "GroupEncryptionError" THEN "share"
    ELSE "raise"

\* daemon.py:275-278
send_response(transport_response) ==
    Response(transport_response.status, transport_response.text)

\* one room_send returned or raised
SendOutcome(tk, attempt, result) ==
    LET tr == [tk EXCEPT !.results = Append(@, result.type),
                         !.resp = result.transport_response]
        next == send_next(attempt, result)
    IN  IF next = "respond" THEN Return(tr, send_response(tr.resp))
        ELSE IF next = "share"
             THEN Await(tr, "share_wait", "share_group_session",
                        ClientSession(tr.client), None)
             ELSE Raise(tr, result.type)

\* daemon.py:250-270
SendStart(t) ==
    /\ CanStart(t)
    /\ \E cred \in Credentials, json \in BOOLEAN :
         LET req == Request(cred, json, None)
             access_token == get_access_token(req)
             tk == [Started("send", req) EXCEPT !.access_token = access_token]
             check == token_check(access_token, client_sessions)
             client == DictGet(client_sessions, access_token)
         IN  task' = [task EXCEPT ![t] =
                 IF check = "missing" THEN Return(tk, missing_token)
                 ELSE IF check = "unknown" THEN Return(tk, unknown_token)
                 ELSE IF ~json THEN Return([tk EXCEPT !.client = client], not_json)
                 ELSE Await([tk EXCEPT !.client = client], "send_wait", "room_send",
                            ClientSession(client), None)]
    /\ requests' = requests + 1
    /\ UNCHANGED <<client_sessions, default_session, sessions_created,
                   closed_default, n_clients, close_calls, sd, fn_in, fn_out>>

\* daemon.py:270-272: the first client.room_send returned or raised
SendReturn(t) ==
    /\ task[t].pc = "send_wait"
    /\ \E result \in SendResults :
         task' = [task EXCEPT ![t] = SendOutcome(task[t], 1, result)]
    /\ UNCHANGED <<client_sessions, default_session, sessions_created,
                   closed_default, n_clients, close_calls, requests, sd, fn_in, fn_out>>

\* daemon.py:272-273: client.share_group_session returned; its result is dropped
SendShared(t) ==
    /\ task[t].pc = "share_wait"
    /\ \E result \in {"ShareGroupSessionResponse", "ShareGroupSessionError"} :
         task' = [task EXCEPT ![t] =
                     Await([task[t] EXCEPT !.results = Append(@, result)],
                           "resend_wait", "room_send",
                           ClientSession(task[t].client), None)]
    /\ UNCHANGED <<client_sessions, default_session, sessions_created,
                   closed_default, n_clients, close_calls, requests, sd, fn_in, fn_out>>

\* daemon.py:273-278: the second client.room_send returned or raised
SendRetried(t) ==
    /\ task[t].pc = "resend_wait"
    /\ \E result \in SendResults :
         task' = [task EXCEPT ![t] = SendOutcome(task[t], 2, result)]
    /\ UNCHANGED <<client_sessions, default_session, sessions_created,
                   closed_default, n_clients, close_calls, requests, sd, fn_in, fn_out>>

-----------------------------------------------------------------------------
(* router and forward_request, daemon.py:56-90                             *)

\* router constructing a ClientSession for every anonymous request
constructs_default_always(current) == TRUE

\* daemon.py:85-86: whether router constructs a ClientSession
constructs_default(current) == current = 0

\* daemon.py:90: web.Response(text=...) leaves the status at its default, 200
router_response(resp) == Response(200, resp.text)

\* daemon.py:77-89 and 57-74
RouterStart(t) ==
    /\ CanStart(t)
    /\ \E cred \in Credentials :
         LET req == Request(cred, TRUE, None)
             token == get_access_token(req)
             client == DictGet(client_sessions, token)
             fresh == client = 0 /\ constructs_default(default_session)
             default == IF fresh THEN sessions_created + 1 ELSE default_session
             session == IF client # 0 THEN ClientSession(client)
                        ELSE DefaultSession(default)
             tk == [Started("router", req) EXCEPT
                       !.access_token = token, !.client = client, !.session = session]
         IN  /\ task' = [task EXCEPT ![t] =
                            Await(tk, "forward_wait", "request", session, None)]
             /\ sessions_created' = IF fresh THEN sessions_created + 1
                                    ELSE sessions_created
             /\ default_session' = IF client = 0 THEN default ELSE default_session
    /\ requests' = requests + 1
    /\ UNCHANGED <<client_sessions, closed_default, n_clients, close_calls, sd,
                   fn_in, fn_out>>

\* daemon.py:89-90: session.request returned
RouterReturn(t) ==
    /\ task[t].pc = "forward_wait"
    /\ \E status \in ForwardStatuses, text \in UpstreamTexts :
         LET tk == [task[t] EXCEPT !.results = Append(@, "ClientResponse"),
                                   !.resp = Response(status, text)]
         IN  task' = [task EXCEPT ![t] = Return(tk, router_response(tk.resp))]
    /\ UNCHANGED <<client_sessions, default_session, sessions_created,
                   closed_default, n_clients, close_calls, requests, sd, fn_in, fn_out>>

-----------------------------------------------------------------------------
(* shutdown, daemon.py:280-290                                             *)

\* daemon.py:285-290, from one `next` of the iterator over
\* client_sessions.values() to the following await.  The iterator raises
\* RuntimeError when the dict has changed size since it was created.
ShutdownLoop(sdr) ==
    IF Len(client_sessions) # sdr.used
    THEN /\ sd' = [sdr EXCEPT !.pc = "failed"]
         /\ UNCHANGED <<close_calls, closed_default>>
    ELSE IF sdr.pos < Len(client_sessions)
    THEN /\ sd' = [sdr EXCEPT !.pc = "close_client", !.pos = @ + 1]
         /\ close_calls' =
                [close_calls EXCEPT ![client_sessions[sdr.pos + 1].value] = @ + 1]
         /\ UNCHANGED closed_default
    ELSE IF default_session # 0
    THEN /\ sd' = [sdr EXCEPT !.pc = "close_default"]
         /\ closed_default' = closed_default \cup {default_session}
         /\ UNCHANGED close_calls
    ELSE /\ sd' = [sdr EXCEPT !.pc = "done"]
         /\ UNCHANGED <<close_calls, closed_default>>

\* the PantaClients whose login handler is not running: it has returned
LoginsCompleted ==
    {c \in 1..n_clients :
        \A t \in Tasks : ~(task[t].kind = "login" /\ task[t].client = c
                                                   /\ ~Free(task[t]))}

\* the frame of a run of the hook: the iterator over client_sessions.values()
\* at its start, and what the daemon had done when the run began
ShutdownFrame(runs) ==
    [pc |-> "iter", pos |-> 0, used |-> Len(client_sessions),
     clients |-> n_clients, completed |-> LoginsCompleted, runs |-> runs]

\* aiohttp fires on_shutdown once (daemon.py:314); the hook starts: daemon.py:285
ShutdownStart ==
    /\ sd.pc = "idle"
    /\ ShutdownLoop(ShutdownFrame(1))
    /\ UNCHANGED <<client_sessions, default_session, sessions_created, n_clients,
                   task, requests, fn_in, fn_out>>

\* daemon.py:286: client.close returned
ShutdownClientClosed ==
    /\ sd.pc = "close_client"
    /\ ShutdownLoop(sd)
    /\ UNCHANGED <<client_sessions, default_session, sessions_created, n_clients,
                   task, requests, fn_in, fn_out>>

\* ShutdownDefaultClosed without the assignment of None
ShutdownDefaultClosed_keeps ==
    /\ sd.pc = "close_default"
    /\ sd' = [sd EXCEPT !.pc = "done"]
    /\ UNCHANGED <<client_sessions, default_session, sessions_created, closed_default,
                   n_clients, close_calls, task, requests, fn_in, fn_out>>

\* daemon.py:289-290: default_session.close returned
ShutdownDefaultClosed ==
    /\ sd.pc = "close_default"
    /\ default_session' = 0
    /\ sd' = [sd EXCEPT !.pc = "done"]
    /\ UNCHANGED <<client_sessions, sessions_created, closed_default, n_clients,
                   close_calls, task, requests, fn_in, fn_out>>

\* the hook is called again after a run of it has completed
ShutdownAgain ==
    /\ sd.pc = "done"
    /\ sd.runs < MaxShutdowns
    /\ ShutdownLoop(ShutdownFrame(sd.runs + 1))
    /\ UNCHANGED <<client_sessions, default_session, sessions_created, n_clients,
                   task, requests, fn_in, fn_out>>

-----------------------------------------------------------------------------
(* The daemon.                                                             *)

NoInput == [fn |-> "none", request |-> NoRequest, filter |-> None,
            proxy |-> None, ssl_insecure |-> FALSE]
NoOutput == [done |-> FALSE, access_token |-> Empty, filter |-> None,
             call |-> UpstreamCall(None, None)]

\* the state attrs gives a new ProxyDaemon, daemon.py:34-35
InitDaemon ==
    /\ client_sessions = <<>>
    /\ default_session = 0
    /\ sessions_created = 0
    /\ closed_default = {}
    /\ n_clients = 0
    /\ close_calls = [c \in ClientIds |-> 0]
    /\ task = [t \in Tasks |-> IdleTask]
    /\ requests = 0
    /\ sd = [pc |-> "idle", pos |-> 0, used |-> 0, clients |-> 0,
             completed |-> {}, runs |-> 0]

Init ==
    /\ InitDaemon
    /\ fn_in = NoInput
    /\ fn_out = NoOutput

Next ==
    \/ \E t \in Tasks :
          \/ LoginStart(t) \/ LoginReturn(t) \/ LoginClosed(t)
          \/ SyncStart(t) \/ SyncReturn(t) \/ SyncUploaded(t) \/ SyncQueried(t)
          \/ SendStart(t) \/ SendReturn(t) \/ SendShared(t) \/ SendRetried(t)
          \/ RouterStart(t) \/ RouterReturn(t)
    \/ ShutdownStart
    \/ ShutdownClientClosed
    \/ ShutdownDefaultClosed

Spec == Init /\ [][Next]_vars

\* The daemon whose shutdown hook is run more than once.  The hook reads and
\* writes client_sessions and default_session only; the handlers that write
\* them are login and router.
NextRerun ==
    \/ \E t \in Tasks :
          \/ LoginStart(t) \/ LoginReturn(t) \/ LoginClosed(t)
          \/ RouterStart(t) \/ RouterReturn(t)
    \/ ShutdownStart
    \/ ShutdownClientClosed
    \/ ShutdownDefaultClosed
    \/ ShutdownAgain

SpecRerun == Init /\ [][NextRerun]_vars

-----------------------------------------------------------------------------
(* The pure functions on their own, over all small inputs.                 *)

TokenChars == {"B", "a", "r", " ", "x"}
FilterChars == {"0", "2", "4", ".", "{", "}", "[", "]", Quote, "x"}

\* requests without Authorization header, or with a Bearer one
FnRequests ==
    {Request([query_access_token |-> q, authorization |-> h], TRUE, None) :
        q \in {Empty, TokXyz},
        h \in {Empty} \cup {Bearer \o tok : tok \in TextsUpTo(TokenChars, MaxTextLen)}}

\* no --proxy option, or the URL given with it
ProxyUrls == {None, str(<<"x">>)}

\* no filter parameter, or one with a value of at least one character
FnFilters ==
    {None} \cup {str(s) : s \in TextsUpTo(FilterChars, MaxFilterLen) \ {Empty}}

InitFn ==
    /\ InitDaemon
    /\ fn_in \in {[NoInput EXCEPT !.fn = "get_access_token", !.request = r] :
                     r \in FnRequests}
                \cup {[NoInput EXCEPT !.fn = "sync_filter", !.filter = f] :
                        f \in FnFilters}
                \cup {[NoInput EXCEPT !.fn = "forward_request", !.proxy = p,
                                      !.ssl_insecure = i] :
                        p \in ProxyUrls, i \in BOOLEAN}
    /\ fn_out = NoOutput

ApplyGetAccessToken ==
    /\ fn_in.fn = "get_access_token"
    /\ ~fn_out.done
    /\ fn_out' = [NoOutput EXCEPT !.done = TRUE,
                                  !.access_token = get_access_token(fn_in.request)]
    /\ UNCHANGED <<daemon_vars, fn_in>>

ApplySyncFilter ==
    /\ fn_in.fn = "sync_filter"
    /\ ~fn_out.done
    /\ fn_out' = [NoOutput EXCEPT !.done = TRUE,
                                  !.filter = sync_filter(fn_in.filter)]
    /\ UNCHANGED <<daemon_vars, fn_in>>

\* the forwarder of the daemon that main configures
ApplyForwardRequest ==
    /\ fn_in.fn = "forward_request"
    /\ ~fn_out.done
    /\ fn_out' = [NoOutput EXCEPT
                     !.done = TRUE,
                     !.call = forward_request(main(fn_in.proxy, fn_in.ssl_insecure))]
    /\ UNCHANGED <<daemon_vars, fn_in>>

NextFn == ApplyGetAccessToken \/ ApplySyncFilter \/ ApplyForwardRequest

SpecFn == InitFn /\ [][NextFn]_vars

-----------------------------------------------------------------------------
(* Properties.                                                             *)

\* this step dispatches a request to slot t
Starts(t) == requests' # requests /\ CanStart(t)

Ops(tk) == [i \in 1..Len(tk.calls) |-> tk.calls[i].op]

\* C1: a sync or send request whose extracted credential is empty is answered
\* 401 M_MISSING_TOKEN, one whose credential is not a key of the registry 401
\* M_UNKNOWN_TOKEN; the handler returns at once, having called nothing, and
\* this before the body of a send is looked at.
C1_TokenChecks ==
    [][\A t \in Tasks :
        (Starts(t) /\ task'[t].kind \in {"sync", "send"}) =>
            LET tk == task'[t]
                access_token == get_access_token(tk.req)
            IN  /\ tk.access_token = access_token
                /\ access_token = Empty =>
                      tk.pc = "done" /\ tk.response = Response(401, MissingTokenText)
                      /\ tk.calls = <<>> /\ tk.raised = "none"
                /\ (access_token # Empty /\ access_token \notin Keys(client_sessions)) =>
                      tk.pc = "done" /\ tk.response = Response(401, UnknownTokenText)
                      /\ tk.calls = <<>> /\ tk.raised = "none"]_vars

\* C1 happens: with a token registered, a send with an unregistered
\* credential and a malformed body has been answered M_UNKNOWN_TOKEN.
C1_Witness ==
    /\ client_sessions # <<>>
    /\ \E t \in Tasks :
         /\ task[t].kind = "send" /\ task[t].pc = "done"
         /\ task[t].access_token # Empty /\ ~task[t].req.json
         /\ task[t].access_token \notin Keys(client_sessions)
         /\ task[t].response = Response(401, UnknownTokenText)
         /\ task[t].calls = <<>>

\* C2: one send request calls room_send, and only when that first call raised
\* GroupEncryptionError calls share_group_session once and room_send once
\* more; whatever the second room_send does ends the request (an exception
\* escapes to the caller), so there are never more than two room_send calls
\* nor more than one share_group_session call.
C2_SendRetriesOnce ==
    \A t \in Tasks :
        task[t].kind = "send" =>
            LET tk == task[t]
                ops == Ops(tk)
                res == tk.results
            IN  /\ ops \in {<<>>, <<"room_send">>,
                            <<"room_send", "share_group_session">>,
                            <<"room_send", "share_group_session", "room_send">>}
                /\ Len(ops) >= 2 => res[1] = "GroupEncryptionError"
                /\ (Len(res) >= 1 /\ res[1] = "GroupEncryptionError") => Len(ops) >= 2
                /\ (Len(res) >= 1 /\ res[1] # "GroupEncryptionError") =>
                      tk.pc = "done" /\ Len(ops) = 1
                /\ Len(res) >= 2 => Len(ops) = 3
                /\ Len(res) = 3 =>
                      /\ tk.pc = "done"
                      /\ res[3] \in {"GroupEncryptionError", "ClientConnectionError"} =>
                            tk.raised = res[3] /\ tk.response = NoResponse
                      /\ res[3] \notin {"GroupEncryptionError", "ClientConnectionError"} =>
                            tk.raised = "none" /\ tk.response = tk.resp
                /\ Len(res) <= 3

\* C2 happens: a send whose first and second room_send both raised
\* GroupEncryptionError has ended with the exception, after one share.
C2_Witness ==
    \E t \in Tasks :
        /\ task[t].kind = "send" /\ task[t].pc = "done"
        /\ Ops(task[t]) = <<"room_send", "share_group_session", "room_send">>
        /\ task[t].results[1] = "GroupEncryptionError"
        /\ task[t].results[3] = "GroupEncryptionError"
        /\ task[t].raised = "GroupEncryptionError"

\* the request carries token tok: in the query, or else as a Bearer header
Bears(req, tok) ==
    \/ req.query_access_token = tok
    \/ req.query_access_token = Empty /\ req.authorization = Bearer \o tok

\* C3: when a login got access token tok from the homeserver, the registry
\* maps tok to the PantaClient of that login, and a request to the router that
\* carries a registered token is sent through the transport of the PantaClient
\* registered under it, not through the anonymous transport.
C3_TokenRoutesToSession ==
    [][\A t \in Tasks :
        /\ (task[t].pc = "login_wait" /\ task'[t].pc = "done") =>
              \E tok \in Tokens :
                  /\ tok \in Keys(client_sessions')
                  /\ DictGet(client_sessions', tok) = task[t].client
        /\ (Starts(t) /\ task'[t].kind = "router") =>
              \A tok \in Keys(client_sessions) :
                  Bears(task'[t].req, tok) =>
                      task'[t].session = ClientSession(DictGet(client_sessions, tok))]_vars

\* C4: a login whose credential exchange fails closes the PantaClient it
\* created and leaves the registry as it was, and answers with the status and
\* the body of the homeserver.
C4_FailedLogin ==
    /\ [](\A t \in Tasks :
             (task[t].kind = "login" /\ task[t].results = <<"LoginError">>) =>
                 /\ close_calls[task[t].client] >= 1
                 /\ task[t].client \notin Values(client_sessions)
                 /\ task[t].pc = "done" => task[t].response = task[t].resp
                                             /\ task[t].raised = "none")
    /\ [][\A t \in Tasks :
            (task[t].kind = "login" /\ ~Free(task[t]) /\ task'[t] # task[t]
             /\ task'[t].results = <<"LoginError">>) =>
                client_sessions' = client_sessions]_vars

\* C4 happens: with a token registered, a failed login has answered with the
\* homeserver's 404 and has closed its PantaClient.
C4_Witness ==
    /\ client_sessions # <<>>
    /\ \E t \in Tasks :
         /\ task[t].kind = "login" /\ task[t].pc = "done"
         /\ task[t].results = <<"LoginError">>
         /\ task[t].response = Response(404, "upstream text 2")
         /\ close_calls[task[t].client] = 1

\* C5: a login whose body is not JSON is answered 500 M_NOT_JSON by the proxy
\* itself: no PantaClient is constructed, nothing is called and the registry
\* is unchanged.
C5_LoginNotJson ==
    [][\A t \in Tasks :
        (Starts(t) /\ task'[t].kind = "login" /\ ~task'[t].req.json) =>
            /\ task'[t].pc = "done"
            /\ task'[t].response = Response(500, NotJsonText)
            /\ task'[t].raised = "none"
            /\ task'[t].calls = <<>>
            /\ task'[t].client = 0
            /\ n_clients' = n_clients
            /\ client_sessions' = client_sessions
            /\ close_calls' = close_calls]_vars

\* C5 happens: with a token registered, a login with a malformed body has been
\* answered 500.
C5_Witness ==
    /\ client_sessions # <<>>
    /\ \E t \in Tasks :
         /\ task[t].kind = "login" /\ task[t].pc = "done" /\ ~task[t].req.json
         /\ task[t].response.status = 500

\* a request to the router that found no PantaClient under its credential
Anonymous(tk) == tk.kind = "router" /\ tk.client = 0

\* C6 as claimed: whatever the order of requests and shutdown, ClientSession()
\* is constructed at most once and every request to the router without a
\* registered token uses that one instance.
C6_ConstructedOnce ==
    /\ sessions_created <= 1
    /\ \A t \in Tasks : Anonymous(task[t]) => task[t].session = DefaultSession(1)

\* C6 as amended: the router constructs a ClientSession only when the daemon
\* holds none, so at most once until shutdown has closed and dropped it, and a
\* further one only after that; every request to the router without a
\* registered token uses the instance held at that moment, which until
\* shutdown has completed is the one first instance.
C6_ConstructedOncePerShutdown ==
    /\ sessions_created <= Cardinality(closed_default) + 1
    /\ default_session \in {0, sessions_created}
    /\ sd.pc # "done" => sessions_created <= 1
    /\ \A t \in Tasks :
         Anonymous(task[t]) =>
             /\ task[t].session[1] = "default"
             /\ task[t].session[2] \in 1..sessions_created
             /\ sd.pc # "done" => task[t].session = DefaultSession(1)
             /\ Ops(task[t]) = <<"request">>
             /\ task[t].calls[1].on = task[t].session

\* C6 happens: two requests to the router, one without credential and one
\* with an unregistered token, have both used the one instance constructed.
C6_Witness ==
    /\ sessions_created = 1
    /\ \E t, u \in Tasks :
         /\ t # u
         /\ Anonymous(task[t]) /\ task[t].access_token = Empty
         /\ Anonymous(task[u]) /\ task[u].access_token # Empty
         /\ task[t].session = DefaultSession(1)
         /\ task[u].session = DefaultSession(1)

\* C7: the filter sync hands to client.sync is None or a dict, whatever the
\* query parameter filter holds.
C7_FilterNoneOrDict ==
    (fn_in.fn = "sync_filter" /\ fn_out.done) =>
        fn_out.filter.type \in {"NoneType", "dict"}

\* str.removeprefix: s without one leading copy of prefix
RemovePrefix(s, prefix) ==
    IF Len(s) >= Len(prefix) /\ SubSeq(s, 1, Len(prefix)) = prefix
    THEN SubSeq(s, Len(prefix) + 1, Len(s))
    ELSE s

\* C8: get_access_token gives the query parameter access_token when it is not
\* empty, and otherwise the Authorization header without one leading
\* "Bearer ", every other character kept.
C8_ExtractionIsPrefixRemoval ==
    (fn_in.fn = "get_access_token" /\ fn_out.done) =>
        fn_out.access_token =
            IF fn_in.request.query_access_token # Empty
            THEN fn_in.request.query_access_token
            ELSE RemovePrefix(fn_in.request.authorization, Bearer)

\* C9: the response of the router has the status and the body of the
\* homeserver's response.
C9_RouterRelaysStatus ==
    \A t \in Tasks :
        (task[t].kind = "router" /\ task[t].pc = "done") =>
            /\ task[t].response.status = task[t].resp.status
            /\ task[t].response.text = task[t].resp.text

\* C10: when shutdown completes, every PantaClient in the registry that a
\* login constructed before shutdown started has been closed, also when that
\* login registered it while shutdown was suspended; and the anonymous
\* transport, if one was constructed, has been closed, after all of them.
C10_ShutdownClosesAll ==
    [][/\ (sd.pc # "done" /\ sd'.pc = "done") =>
             /\ \A c \in Values(client_sessions') :
                   c <= sd'.clients => close_calls'[c] >= 1
             /\ \A n \in 1..sessions_created' : n \in closed_default'
       /\ closed_default' # closed_default =>
             \A c \in Values(client_sessions') :
                 c <= sd'.clients => close_calls'[c] >= 1]_vars

\* a step of a run of the shutdown hook that is not the first run
LaterRun == sd' # sd /\ sd'.runs >= 2

C12_OnlyShutdownClearsRegistry ==
    [][/\ sd' = sd => Keys(client_sessions) \subseteq Keys(client_sessions')
       /\ (sd.pc # "done" /\ sd'.pc = "done") => client_sessions' = <<>>]_vars

\* C13: the upstream request of forward_request carries the proxy URL and the
\* TLS setting of the configuration; it turns verification off only when the
\* configuration does (--ssl-insecure).
C13_ForwardUsesConfiguration ==
    (fn_in.fn = "forward_request" /\ fn_out.done) =>
        /\ fn_out.call.proxy = fn_in.proxy
        /\ fn_out.call.ssl = main(fn_in.proxy, fn_in.ssl_insecure).ssl
        /\ fn_out.call.ssl = False => fn_in.ssl_insecure

\* how many calls of operation op the handler has made
Count(tk, op) == Cardinality({i \in 1..Len(tk.calls) : tk.calls[i].op = op})

\* the values the handler got when it read attribute attr
ReadOf(tk, attr) ==
    {tk.reads[i].value : i \in {j \in 1..Len(tk.reads) : tk.reads[j].attr = attr}}

Has(tk, result) == \E i \in 1..Len(tk.results) : tk.results[i] = result

\* what sync answers when client.sync succeeded and nothing went wrong
SyncSuccess(tk) == Response(tk.resp.status, Decrypted[tk.resp.text])

\* C14: a sync whose client.sync did not give a SyncResponse answers with the
\* status and the body of the homeserver, and calls nothing after client.sync:
\* no key upload, key query, device verification or decryption.
C14_FailedSyncRelayed ==
    \A t \in Tasks :
        (task[t].kind = "sync" /\ Has(task[t], "SyncError")) =>
            /\ task[t].pc = "done"
            /\ Ops(task[t]) = <<"sync">>
            /\ task[t].raised = "none"
            /\ task[t].response = Response(task[t].resp.status, task[t].resp.text)

\* C15: in a sync whose client.sync succeeded keys_upload is called exactly
\* when should_upload_keys was true, before keys_query, verify_device and
\* decrypt_sync_body; whatever keys_upload gives, the answer is the status of
\* the homeserver and the decrypted body.
C15_KeyUpload ==
    \A t \in Tasks :
        (task[t].kind = "sync" /\ Has(task[t], "SyncResponse")) =>
            /\ ReadOf(task[t], "should_upload_keys") # {}
            /\ Count(task[t], "keys_upload")
                  = (IF TRUE \in ReadOf(task[t], "should_upload_keys") THEN 1 ELSE 0)
            /\ \A i, j \in 1..Len(task[t].calls) :
                  (/\ task[t].calls[i].op = "keys_upload"
                   /\ task[t].calls[j].op \in {"keys_query", "verify_device",
                                               "decrypt_sync_body"}) => i < j
            /\ task[t].pc = "done" =>
                  /\ task[t].response = SyncSuccess(task[t])
                  /\ task[t].raised = "none"
                  /\ Count(task[t], "decrypt_sync_body") = 1

\* C15 happens: a sync has answered 200 and the decrypted body after a key
\* upload that failed and a key query.
C15_Witness ==
    \E t \in Tasks :
        /\ task[t].kind = "sync" /\ task[t].pc = "done"
        /\ task[t].results = <<"SyncResponse", "KeysUploadError", "KeysQueryResponse">>
        /\ Ops(task[t])[2] = "keys_upload" /\ Ops(task[t])[3] = "keys_query"
        /\ task[t].response = Response(200, "decrypted text 1")

\* how many times the handler called verify_device on device d
Verified(tk, d) ==
    Cardinality({i \in 1..Len(tk.calls) :
                    /\ tk.calls[i].op = "verify_device"
                    /\ tk.calls[i].on = ClientSession(tk.client)
                    /\ tk.calls[i].arg = str(<<d.id>>)})

\* C16: after a key query that succeeded verify_device has been called once
\* on every device of the changed map that is not deleted and on no deleted
\* device; without a key query, or after one that failed, it is not called.
C16_VerifyDevices ==
    \A t \in Tasks :
        task[t].kind = "sync" =>
            IF Has(task[t], "KeysQueryResponse")
            THEN /\ TRUE \in ReadOf(task[t], "should_query_keys")
                 /\ \A changed \in ReadOf(task[t], "changed") :
                       \A n \in 1..Len(Devices) :
                           Verified(task[t], Devices[n])
                              = (IF /\ \E i \in 1..Len(changed) : changed[i] = Devices[n]
                                    /\ ~Devices[n].deleted
                                 THEN 1 ELSE 0)
                 /\ ReadOf(task[t], "changed") # {}
            ELSE Count(task[t], "verify_device") = 0

\* C16 happens: the key query gave all three devices as changed; DEVICEA and
\* DEVICEC have been verified, the deleted DEVICEB has not.
C16_Witness ==
    \E t \in Tasks :
        /\ task[t].kind = "sync" /\ task[t].pc = "done"
        /\ ReadOf(task[t], "changed") = {Devices}
        /\ Verified(task[t], Devices[1]) = 1
        /\ Verified(task[t], Devices[2]) = 0
        /\ Verified(task[t], Devices[3]) = 1

\* C17 (as stated): a sync whose key query failed does not answer as it does
\* when the key query succeeds.
C17_FailedKeyQuerySurfaced ==
    \A t \in Tasks :
        (task[t].kind = "sync" /\ task[t].pc = "done"
         /\ Has(task[t], "KeysQueryError")) =>
            \/ task[t].response # SyncSuccess(task[t])
            \/ task[t].raised # "none"

\* C17 (amended): a sync whose key query failed verifies no device and
\* answers as it does when the key query succeeds: the status of the
\* homeserver and the decrypted body.
C17_FailedKeyQueryHidden ==
    \A t \in Tasks :
        (task[t].kind = "sync" /\ Has(task[t], "KeysQueryError")) =>
            /\ task[t].pc = "done"
            /\ task[t].response = SyncSuccess(task[t])
            /\ task[t].raised = "none"
            /\ Count(task[t], "verify_device") = 0
            /\ Ops(task[t])[Len(task[t].calls)] = "decrypt_sync_body"

\* C17 happens: a sync whose key query failed has answered 200 and the
\* decrypted body.
C17_Witness ==
    \E t \in Tasks :
        /\ task[t].kind = "sync" /\ task[t].pc = "done"
        /\ task[t].results = <<"SyncResponse", "KeysQueryError">>
        /\ task[t].response = Response(200, "decrypted text 2")

\* the login handler in this slot has returned the response of a login that
\* succeeded with token tok
Delivered(tk, tok) ==
    /\ tk.kind = "login" /\ tk.pc = "done" /\ Has(tk, "LoginResponse")
    /\ tok \in ReadOf(tk, "access_token")

\* C18: when login has returned the response of a successful login, the token
\* of that response is a key of the registry; a sync or send that carries such
\* a token as its credential is not answered M_UNKNOWN_TOKEN.
C18_RegisteredBeforeDelivered ==
    /\ [](\A t \in Tasks :
             (task[t].kind = "login" /\ task[t].pc = "done"
              /\ Has(task[t], "LoginResponse")) =>
                 /\ ReadOf(task[t], "access_token") # {}
                 /\ ReadOf(task[t], "access_token") \subseteq Keys(client_sessions))
    /\ [][\A t \in Tasks :
            (/\ Starts(t)
             /\ task'[t].kind \in {"sync", "send"}
             /\ \E u \in Tasks : Delivered(task[u], task'[t].access_token)) =>
                /\ task'[t].response # unknown_token
                /\ task'[t].client # 0]_vars

\* C18 happens: after the one login has returned, a sync that carries the
\* token it registered has been let through to client.sync.
C18_Witness ==
    /\ n_clients = 1 /\ requests = 2
    /\ \E t \in Tasks :
         /\ task[t].kind = "sync" /\ task[t].pc = "sync_wait"
         /\ task[t].req.query_access_token = TokAbc
         /\ DictGet(client_sessions, TokAbc) = 1
         /\ task[t].client = 1

\* the calls slot t issues in this step
NewCalls(t) ==
    IF requests' # requests
    THEN IF task'[t] # task[t] THEN task'[t].calls ELSE <<>>
    ELSE SubSeq(task'[t].calls, Len(task[t].calls) + 1, Len(task'[t].calls))

UpstreamOps ==
    {"sync", "keys_upload", "keys_query", "room_send", "share_group_session", "request"}

\* C19: no handler issues a call (sync, key upload, key query, send, share
\* of the group session, forward) on a PantaClient on which close has been
\* called.
C19_NoCallAfterClose ==
    [][\A t \in Tasks :
          \A i \in 1..Len(NewCalls(t)) :
              LET call == NewCalls(t)[i]
              IN  (call.op \in UpstreamOps /\ call.on[1] = "client") =>
                      close_calls[call.on[2]] = 0]_vars

\* C20: when shutdown completes, close has been called on every PantaClient
\* whose login had returned when shutdown started, also on one whose token a
\* later login registered again.
C20_NoSessionLeak ==
    [][(sd.pc # "done" /\ sd'.pc = "done") =>
          \A c \in sd'.completed : close_calls'[c] >= 1]_vars

====
